---- MODULE Spec2Model ----
(***************************************************************************)
(* The team builder of src/chains/team_builder_node.py as a state machine. *)
(*                                                                         *)
(* One run of team_builder_node is: the provider is initialised and the    *)
(* two input files are loaded (lines 95-121), which ends the run with an   *)
(* error payload when one of them fails; then Prepare (lines 123-138),     *)
(* then for each                                                           *)
(* task of sorted_tasks either SkipTask (lines 141-144) or ScoreCandidates *)
(* (lines 149-182) followed by the walk over the ranked candidates, which  *)
(* ends in Commit (lines 198-238) or NoCandidate (lines 240-241), and at   *)
(* last FormatOutput (lines 243-271).                                      *)
(*                                                                         *)
(* Numbers: similarities and thresholds are in tenths (5 is 0.5); a score  *)
(* is the exact fraction [num, den] that np.mean computes, so no rounding  *)
(* is modelled.  The embedding provider is an external capability: it is   *)
(* modelled by the cosine similarity of the vectors it returns, a fixed    *)
(* symmetric table Sim with Sim(s, s) = 1.0.                               *)
(***************************************************************************)
EXTENDS Integers, Sequences, FiniteSets, TLC

\* ------------------------------------------------------------------ bounds

\* At most this many tasks in project_analysis.json.
MaxTasks == 2
\* num_employees ranges over 0 .. MaxCap.
MaxCap == 2

\* ------------------------------------------------------- program constants

\* MIN_SEMANTIC_SCORE_THRESHOLD = 0.2, in tenths.
MIN_SEMANTIC_SCORE_THRESHOLD == 2
\* SKILL_SIMILARITY_THRESHOLD = 0.5, in tenths.
SKILL_SIMILARITY_THRESHOLD == 5

\* ------------------------------------------------------------ input domain

\* str.lower() on the skill labels of the inputs.
Lower(s) ==
    CASE s = "Py" -> "py"
      [] s = "CSS" -> "css"
      [] s = "Python" -> "python"
      [] s = "SASS" -> "sass"
      [] OTHER -> s

\* Cosine similarity, in tenths, of the embeddings of two lower-cased skill
\* labels: the same text has the same vector, hence similarity 1.0.
Sim(a, b) ==
    CASE a = b -> 10
      [] {a, b} = {"py", "sql"} -> 5
      [] {a, b} = {"py", "css"} -> 1
      [] {a, b} = {"sql", "css"} -> 3
      [] {a, b} = {"css", "sass"} -> 4
      [] OTHER -> 0

\* The skills lists a task of the project analysis may carry: one that is empty
\* once its empty strings are dropped, one of one skill, one of two.
TaskSkillLists == {<<"">>, <<"Py">>, <<"css", "sql">>}

\* Task names by position in the input list (unique within a run); the input
\* does not list the tasks in the order of their names.
TaskNames == <<"B", "A", "C", "D">>

\* The order of str on task names and on employee filenames.
StrRank(s) ==
    CASE s = "A" -> 1 [] s = "B" -> 2 [] s = "C" -> 3 [] s = "D" -> 4
      [] s = "e1" -> 1 [] s = "e2" -> 2 [] s = "e3" -> 3
      [] OTHER -> 0

\* The windows of a task, (start_days_from_kickoff, duration_days) with
\* start >= 0 and duration >= 1: windows that start together, that follow one
\* another without a gap, and that overlap.
Windows == (0..1) \X (1..2)

\* The task lists of ProjectAnalysisOutput.tasks: depends_on and description
\* are never read by the team builder and are left out.
TaskLists ==
    UNION {{[i \in 1..n |->
                [name |-> TaskNames[i],
                 skills |-> sk[i],
                 start_days_from_kickoff |-> w[i][1],
                 duration_days |-> w[i][2]]]
            : sk \in [1..n -> TaskSkillLists], w \in [1..n -> Windows]}
           : n \in 0..MaxTasks}

\* The summaries (category -> skills; the categories are dropped) an employee
\* of all_skills_summary.json may carry.
Summaries == {<< << >> >>, << <<"Py">> >>, << <<"sql">>, <<"CSS">> >>}

\* Employee filenames in the order of the input list.
Filenames == <<"e1", "e2">>

EmployeeLists ==
    {[i \in 1..Len(Filenames) |-> [filename |-> Filenames[i], summary |-> sm[i]]]
       : sm \in [1..Len(Filenames) -> Summaries]}

\* The edges (parent, child) of create_skills_graph, lower-cased as add_edge
\* gets them, that touch a skill label of the inputs above.
SkillGraphEdges ==
    {<<"programming", "python">>, <<"backend development", "python">>,
     <<"python", "django">>, <<"web development", "css">>, <<"css", "sass">>,
     <<"databases", "sql">>, <<"sql", "mysql">>}

SkillGraphNodes == {e[1] : e \in SkillGraphEdges} \cup {e[2] : e \in SkillGraphEdges}

\* The nodes of a graph made of add_edge calls only: the ends of its edges.
GraphNodes(graph) == {e[1] : e \in graph} \cup {e[2] : e \in graph}

\* Mutant: the skill is looked up as it was written.
get_skill_relatives_case_sensitive(graph, skill) ==
    IF skill \notin GraphNodes(graph)
    THEN [found |-> FALSE, parents |-> {}, children |-> {}]
    ELSE [found |-> TRUE,
          parents |-> {e[1] : e \in {x \in graph : x[2] = skill}},
          children |-> {e[2] : e \in {x \in graph : x[1] = skill}}]

\* get_skill_relatives(graph, skill): the predecessors and the successors of
\* the lower-cased skill; found is FALSE for the (None, None) of a skill that
\* is not in the graph.
get_skill_relatives(graph, skill) ==
    IF Lower(skill) \notin GraphNodes(graph)
    THEN [found |-> FALSE, parents |-> {}, children |-> {}]
    ELSE [found |-> TRUE,
          parents |-> {e[1] : e \in {x \in graph : x[2] = Lower(skill)}},
          children |-> {e[2] : e \in {x \in graph : x[1] = Lower(skill)}}]

\* ------------------------------------------------------------------- state

VARIABLES
    artifacts,              \* input: how the provider and the two files are found
    project_tasks,          \* input: ProjectAnalysisOutput.tasks
    employee_skills_data,   \* input: AllEmployeeSkills
    num_employees,          \* input: state["num_employees"]
    pc,                     \* "init", "start", "loop", "walk", "done": the run;
                            \* "failed": an error payload was returned;
                            \* "raised": an exception left team_builder_node
    employees,              \* filename -> [skills, schedule]
    sorted_tasks,
    task_idx,               \* position of the for loop in sorted_tasks
    assignments,            \* filename -> sequence of EmployeeAssignment
    unassigned_tasks,
    current_team_members,
    sorted_candidates,      \* ranked candidate_scores of the current task
    similarity_matrix,      \* the matrix the scoring loop computed last
    team,                   \* the returned team composition
    runs,                   \* number of the run (1 or 2)
    prev_team,              \* the team composition of the run before
    output_file,            \* team_composition.json: << >> or its content
    call,                   \* a call of a helper function on its own
    workflow,               \* an invocation of the integrated workflow
    extractor               \* runs of the skill extractor

vars == <<project_tasks, employee_skills_data, num_employees, pc, employees,
          sorted_tasks, task_idx, assignments, unassigned_tasks,
          current_team_members, sorted_candidates, similarity_matrix, team,
          runs, prev_team, artifacts, output_file, call, workflow, extractor>>

inputs == <<artifacts, project_tasks, employee_skills_data, num_employees>>

\* ----------------------------------------------------------------- helpers

SeqToSet(s) == {s[i] : i \in 1..Len(s)}

\* The sum of the first k elements of the list s.
RECURSIVE SumTo(_, _)
SumTo(s, k) == IF k = 0 THEN 0 ELSE s[k] + SumTo(s, k - 1)

SumSeq(s) == SumTo(s, Len(s))

SetMax(S) == CHOOSE x \in S : \A y \in S : y <= x

\* Every list the elements of the set S can be listed as: list(set) of str
\* iterates in the order of the strings' hashes, which differ between
\* processes.
ListsOfSet(S) ==
    {f \in [1..Cardinality(S) -> S] : \A i, j \in 1..Cardinality(S) : f[i] = f[j] => i = j}

\* Comparison of two scores, fractions with a positive denominator.
ScoreLess(a, b) == a.num * b.den < b.num * a.den
ScoreEq(a, b) == a.num * b.den = b.num * a.den

\* Mutant: the interval ends are compared the wrong way round.
is_employee_available_swapped(schedule, task_start, task_duration) ==
    LET task_end == task_start + task_duration
    IN  \A i \in 1..Len(schedule) :
            ~(task_start < schedule[i][1] /\ task_end > schedule[i][2])

\* Mutant: nobody is ever busy.
is_employee_available_always(schedule, task_start, task_duration) == TRUE

\* Mutant: the intervals are taken as closed, so touching ends collide.
is_employee_available_closed(schedule, task_start, task_duration) ==
    LET task_end == task_start + task_duration
    IN  \A i \in 1..Len(schedule) :
            ~(task_start <= schedule[i][2] /\ task_end >= schedule[i][1])

\* Mutant: the day a busy interval ends on is taken as busy.
is_employee_available_end_inclusive(schedule, task_start, task_duration) ==
    LET task_end == task_start + task_duration
    IN  \A i \in 1..Len(schedule) :
            ~(task_start <= schedule[i][2] /\ task_end > schedule[i][1])

\* is_employee_available: no busy interval overlaps [task_start, task_end).
is_employee_available(schedule, task_start, task_duration) ==
    LET task_end == task_start + task_duration
    IN  \A i \in 1..Len(schedule) :
            ~(task_start < schedule[i][2] /\ task_end > schedule[i][1])

\* The list s in the order Before: the element at position i of s comes k-th
\* when k - 1 elements come before it.  Before is a strict total order on the
\* positions of s.
Ordered(s, Before(_, _)) ==
    [k \in 1..Len(s) |->
        s[CHOOSE i \in 1..Len(s) :
              Cardinality({j \in 1..Len(s) : Before(j, i)}) = k - 1]]

\* Mutant: the tasks that depend on no other task are processed first.
SortTasks_dependencies_first(tasks) ==
    Ordered(tasks, LAMBDA i, j :
        \/ tasks[i].depends_on = << >> /\ tasks[j].depends_on # << >>
        \/ /\ (tasks[i].depends_on = << >>) = (tasks[j].depends_on = << >>)
           /\ \/ tasks[i].start_days_from_kickoff < tasks[j].start_days_from_kickoff
              \/ /\ tasks[i].start_days_from_kickoff = tasks[j].start_days_from_kickoff
                 /\ i < j)

\* sorted(project_tasks, key=start_days_from_kickoff): a stable ascending
\* sort, so tasks with the same start day keep the order of the input list.
SortTasks(tasks) ==
    Ordered(tasks, LAMBDA i, j :
        \/ tasks[i].start_days_from_kickoff < tasks[j].start_days_from_kickoff
        \/ /\ tasks[i].start_days_from_kickoff = tasks[j].start_days_from_kickoff
           /\ i < j)

\* The key (match_score, employee_id) of a candidate, compared as tuples.
KeyLess(a, b) ==
    \/ ScoreLess(a.match_score, b.match_score)
    \/ /\ ScoreEq(a.match_score, b.match_score)
       /\ StrRank(a.employee_id) < StrRank(b.employee_id)

\* Mutant: reverse=True is forgotten, the ranking ascends.
SortCandidates_ascending(candidate_scores) ==
    Ordered(candidate_scores, LAMBDA i, j :
        \/ KeyLess(candidate_scores[i], candidate_scores[j])
        \/ /\ ~KeyLess(candidate_scores[j], candidate_scores[i])
           /\ i < j)

\* Mutant: the candidates are walked in the order of the skills file.
SortCandidates_input_order(candidate_scores) == candidate_scores

\* Mutant: the key is the score alone, so equal scores keep the dict order.
SortCandidates_score_only(candidate_scores) ==
    Ordered(candidate_scores, LAMBDA i, j :
        \/ ScoreLess(candidate_scores[j].match_score, candidate_scores[i].match_score)
        \/ /\ ScoreEq(candidate_scores[j].match_score, candidate_scores[i].match_score)
           /\ i < j)

\* sorted(candidate_scores, key=(match_score, employee_id), reverse=True): a
\* stable descending sort (candidates with equal keys keep their order).
SortCandidates(candidate_scores) ==
    Ordered(candidate_scores, LAMBDA i, j :
        \/ KeyLess(candidate_scores[j], candidate_scores[i])
        \/ /\ ~KeyLess(candidate_scores[i], candidate_scores[j])
           /\ i < j)

\* [skill.lower() for skill in task.skills if skill]
LowerNonEmpty(skills) ==
    LET kept == SelectSeq(skills, LAMBDA skill : skill # "")
    IN  [i \in 1..Len(kept) |-> Lower(kept[i])]

\* Mutant: the empty strings are not dropped.
TaskSkills_unfiltered(task) == [i \in 1..Len(task.skills) |-> Lower(task.skills[i])]

TaskSkills(task) == LowerNonEmpty(task.skills)

\* set(skill.lower() for category in summary.values() for skill in category)
EmployeeSkills(summary) ==
    UNION {{Lower(summary[c][k]) : k \in 1..Len(summary[c])} : c \in 1..Len(summary)}

\* np.clip(x, -1.0, 1.0)
Clip(x) == IF x < -10 THEN -10 ELSE IF x > 10 THEN 10 ELSE x

\* The clipped cosine similarity matrix of the task's skills (rows) and an
\* employee's skills (columns).
SimilarityMatrix(task_skills, emp_skills) ==
    [i \in 1..Len(task_skills) |->
        [es \in emp_skills |-> Clip(Sim(task_skills[i], es))]]

\* np.max(matrix, axis=1)[i]
RowMax(matrix, i) == SetMax({matrix[i][es] : es \in DOMAIN matrix[i]})

\* The match score of an employee for a task: 0 for an employee without
\* skills, else the mean over the task's skills of the best similarity.
MatchScore(emp_skills, task_skills) ==
    IF emp_skills = {} THEN [num |-> 0, den |-> 1]
    ELSE LET m == SimilarityMatrix(task_skills, emp_skills)
         IN  [num |-> SumSeq([i \in 1..Len(task_skills) |-> RowMax(m, i)]),
              den |-> 10 * Len(task_skills)]

\* match_score < MIN_SEMANTIC_SCORE_THRESHOLD
BelowThreshold(match_score) ==
    ScoreLess(match_score, [num |-> MIN_SEMANTIC_SCORE_THRESHOLD, den |-> 10])

\* Mutant: off by one, the team may grow to cap + 1.
CanAddToTeam_inclusive(members, cap) == Cardinality(members) <= cap

\* can_add_to_team = len(current_team_members) < num_employees
CanAddToTeam(members, cap) == Cardinality(members) < cap

\* Mutant: the schedule is overwritten with the new interval.
Booked_overwritten(schedule, task_start, task_end) == <<<<task_start, task_end>>>>

\* employees[emp_filename]["schedule"].append((task_start, task_end))
Booked(schedule, task_start, task_end) == Append(schedule, <<task_start, task_end>>)

\* task_skills.index(s)
IndexOf(task_skills, s) ==
    CHOOSE i \in 1..Len(task_skills) :
        task_skills[i] = s /\ \A j \in 1..(i - 1) : task_skills[j] # s

\* Mutant: the direct matches are all the employee's skills, not those the
\* task asks for.
MatchedSkills_all_own(task_skills, emp_skills, matrix) ==
    LET task_skills_set == SeqToSet(task_skills)
        remaining == task_skills_set \ emp_skills
        semantic == IF remaining # {} /\ emp_skills # {}
                    THEN {s \in remaining :
                            RowMax(matrix, IndexOf(task_skills, s)) >= SKILL_SIMILARITY_THRESHOLD}
                    ELSE {}
    IN  emp_skills \cup semantic

\* The set of skills_match: the direct matches, and the remaining skills of
\* the task whose best similarity in the matrix at hand reaches the
\* threshold.
MatchedSkills(task_skills, emp_skills, matrix) ==
    LET task_skills_set == SeqToSet(task_skills)
        direct_matches == emp_skills \cap task_skills_set
        remaining == task_skills_set \ direct_matches
        semantic == IF remaining # {} /\ emp_skills # {}
                    THEN {s \in remaining :
                            RowMax(matrix, IndexOf(task_skills, s)) >= SKILL_SIMILARITY_THRESHOLD}
                    ELSE {}
    IN  direct_matches \cup semantic

\* task_skills_set - set(skills_match)
MissingSkills(task_skills_set, skills_match) == task_skills_set \ skills_match

\* ------------------------------------------------------------------ actions

\* The employees dict keeps the order of the input list.
EmployeeOrder == [i \in 1..Len(employee_skills_data) |-> employee_skills_data[i].filename]

EmployeeIds == SeqToSet(EmployeeOrder)

CurrentTask == sorted_tasks[task_idx]

\* How a file can be found by the load of lines 104-121: fit to load, absent
\* (FileNotFoundError), not JSON (JSONDecodeError), or JSON that the schema
\* rejects (ValidationError).
FileStates == {"ok", "missing", "unparsable", "invalid"}

\* The embedding provider, initialize_db of line 97, comes up or raises.
ProviderStates == {"ok", "error"}

ArtifactStates ==
    [embedding : ProviderStates, project : FileStates, skills : FileStates]

\* The run reads project_analysis.json when the provider came up, and
\* all_skills_summary.json when the project analysis was loaded.
ReadsProject(a) == a.embedding = "ok" /\ a.project = "ok"
ReadsSkills(a) == ReadsProject(a) /\ a.skills = "ok"

\* The state at the call of team_builder_node.  project_tasks and
\* employee_skills_data are what the run will have read of the two files: a
\* file that is not read, or that does not load, yields nothing.
Init ==
    /\ artifacts \in ArtifactStates
    /\ project_tasks \in IF ReadsProject(artifacts) THEN TaskLists ELSE {<< >>}
    /\ employee_skills_data \in IF ReadsSkills(artifacts) THEN EmployeeLists ELSE {<< >>}
    /\ num_employees \in 0..MaxCap
    /\ pc = "init"
    /\ employees = << >>
    /\ sorted_tasks = << >>
    /\ task_idx = 0
    /\ assignments = << >>
    /\ unassigned_tasks = << >>
    /\ current_team_members = {}
    /\ sorted_candidates = << >>
    /\ similarity_matrix = << >>
    /\ team = << >>
    /\ runs = 1
    /\ prev_team = << >>
    /\ output_file = << >>
    /\ call = << >>
    /\ workflow = << >>
    /\ extractor = << >>

\* The payload of the three early returns: an empty team, an empty
\* unassigned list and a rationale that names what failed and the error.
ErrorPayload(failed, error) ==
    [team |-> << >>,
     unassigned_tasks |-> << >>,
     rationale |-> [failed |-> failed, error |-> error]]

\* Line 99: initialize_db raised.
InitEmbeddingFailsGuard == pc = "init" /\ artifacts.embedding # "ok"

\* Lines 96-101: the provider does not come up; the payload is returned and
\* team_composition.json is not touched.
InitEmbeddingFails ==
    /\ InitEmbeddingFailsGuard
    /\ team' = <<ErrorPayload("initialize embedding function", artifacts.embedding)>>
    /\ pc' = "failed"
    /\ UNCHANGED <<inputs, workflow, extractor, output_file, call, employees, sorted_tasks, task_idx,
                   assignments, unassigned_tasks, current_team_members,
                   sorted_candidates, similarity_matrix, runs, prev_team>>

\* Line 110: the load of project_analysis.json raised.
LoadProjectFailsGuard ==
    /\ pc = "init"
    /\ artifacts.embedding = "ok"
    /\ artifacts.project # "ok"

\* Lines 104-112: the project analysis does not load; the payload is
\* returned and team_composition.json is not touched.
LoadProjectFails ==
    /\ LoadProjectFailsGuard
    /\ team' = <<ErrorPayload("load project analysis", artifacts.project)>>
    /\ pc' = "failed"
    /\ UNCHANGED <<inputs, workflow, extractor, output_file, call, employees, sorted_tasks, task_idx,
                   assignments, unassigned_tasks, current_team_members,
                   sorted_candidates, similarity_matrix, runs, prev_team>>

\* Line 119: the load of all_skills_summary.json raised.
LoadSkillsFailsGuard ==
    /\ pc = "init"
    /\ ReadsProject(artifacts)
    /\ artifacts.skills # "ok"

\* Mutant: the except clause names FileNotFoundError and JSONDecodeError
\* only, so a validation error leaves team_builder_node.
LoadSkillsFails_uncaught ==
    /\ LoadSkillsFailsGuard
    /\ IF artifacts.skills = "invalid"
       THEN team' = team /\ pc' = "raised"
       ELSE /\ team' = <<ErrorPayload("load employee skills", artifacts.skills)>>
            /\ pc' = "failed"
    /\ UNCHANGED <<inputs, workflow, extractor, output_file, call, employees, sorted_tasks, task_idx,
                   assignments, unassigned_tasks, current_team_members,
                   sorted_candidates, similarity_matrix, runs, prev_team>>

\* Lines 114-121: the employee skills do not load; the payload is returned
\* and team_composition.json is not touched.
LoadSkillsFails ==
    /\ LoadSkillsFailsGuard
    /\ team' = <<ErrorPayload("load employee skills", artifacts.skills)>>
    /\ pc' = "failed"
    /\ UNCHANGED <<inputs, workflow, extractor, output_file, call, employees, sorted_tasks, task_idx,
                   assignments, unassigned_tasks, current_team_members,
                   sorted_candidates, similarity_matrix, runs, prev_team>>

\* Line 118: the provider is up and both files are loaded and validated.
LoadInputsGuard == pc = "init" /\ ReadsSkills(artifacts)

\* Lines 95-121, no except branch taken: nothing but the position changes.
LoadInputs ==
    /\ LoadInputsGuard
    /\ pc' = "start"
    /\ UNCHANGED <<inputs, workflow, extractor, output_file, call, employees, sorted_tasks, task_idx,
                   assignments, unassigned_tasks, current_team_members,
                   sorted_candidates, similarity_matrix, team, runs, prev_team>>

\* Line 123 is reached: the inputs are loaded, nothing is prepared yet.
PrepareGuard == pc = "start"

\* Lines 123-138: the employees with empty schedules, the tasks sorted by
\* start day, empty assignments, unassigned list and team set.
Prepare ==
    /\ PrepareGuard
    /\ employees' = [f \in EmployeeIds |->
            LET emp == CHOOSE e \in SeqToSet(employee_skills_data) : e.filename = f
            IN  [skills |-> EmployeeSkills(emp.summary), schedule |-> << >>]]
    /\ sorted_tasks' = SortTasks(project_tasks)
    /\ assignments' = [f \in EmployeeIds |-> << >>]
    /\ unassigned_tasks' = << >>
    /\ current_team_members' = {}
    /\ task_idx' = 1
    /\ pc' = "loop"
    /\ UNCHANGED <<inputs, workflow, extractor, output_file, call, sorted_candidates, similarity_matrix, team, runs, prev_team>>

\* Lines 140-142: the for loop has a next task, and it has no skills.
SkipTaskGuard ==
    /\ pc = "loop"
    /\ task_idx <= Len(sorted_tasks)
    /\ TaskSkills(CurrentTask) = << >>

\* Mutant: a task without skills starts the unassigned list afresh.
SkipTask_resetting ==
    /\ SkipTaskGuard
    /\ unassigned_tasks' = <<CurrentTask.name>>
    /\ task_idx' = task_idx + 1
    /\ UNCHANGED <<inputs, workflow, extractor, output_file, call, pc, employees, sorted_tasks, assignments,
                   current_team_members, sorted_candidates, similarity_matrix,
                   team, runs, prev_team>>

\* Lines 141-144: a task without skills is unassigned at once.
SkipTask ==
    /\ SkipTaskGuard
    /\ unassigned_tasks' = Append(unassigned_tasks, CurrentTask.name)
    /\ task_idx' = task_idx + 1
    /\ UNCHANGED <<inputs, workflow, extractor, output_file, call, pc, employees, sorted_tasks, assignments,
                   current_team_members, sorted_candidates, similarity_matrix,
                   team, runs, prev_team>>

\* The employees, in dict order, that have skills: those the scoring loop
\* computes a similarity matrix for.
SkilledEmployees == SelectSeq(EmployeeOrder, LAMBDA f : employees[f].skills # {})

\* Lines 140-142: the for loop has a next task, and it has skills.
ScoreCandidatesGuard ==
    /\ pc = "loop"
    /\ task_idx <= Len(sorted_tasks)
    /\ TaskSkills(CurrentTask) # << >>

\* candidate_scores: the employees in dict order, each with its score.
CandidateScores(task_skills) ==
    [i \in 1..Len(EmployeeOrder) |->
        [employee_id |-> EmployeeOrder[i],
         match_score |-> MatchScore(employees[EmployeeOrder[i]].skills, task_skills)]]

\* The similarity matrix the scoring loop leaves behind: that of the last
\* employee with skills, or the one of an earlier task when nobody has any.
LastSimilarityMatrix(task_skills) ==
    IF SkilledEmployees = << >> THEN similarity_matrix
    ELSE SimilarityMatrix(task_skills,
                          employees[SkilledEmployees[Len(SkilledEmployees)]].skills)

\* Mutant: scoring reserves a seat in the team for every employee it finds
\* skills for.
ScoreCandidates_reserving ==
    /\ ScoreCandidatesGuard
    /\ \E task_skills \in {TaskSkills(CurrentTask)} :
          /\ \E candidate_scores \in {CandidateScores(task_skills)} :
                sorted_candidates' = SortCandidates(candidate_scores)
          /\ similarity_matrix' = LastSimilarityMatrix(task_skills)
    /\ current_team_members' = current_team_members \cup SeqToSet(SkilledEmployees)
    /\ pc' = "walk"
    /\ UNCHANGED <<inputs, workflow, extractor, output_file, call, employees, sorted_tasks, task_idx,
                   assignments, unassigned_tasks, team, runs, prev_team>>

\* Lines 149-182: every employee is scored against the task and the scores
\* are ranked; similarity_matrix is left as the last employee's.
ScoreCandidates ==
    /\ ScoreCandidatesGuard
    /\ \E task_skills \in {TaskSkills(CurrentTask)} :
          /\ \E candidate_scores \in {CandidateScores(task_skills)} :
                sorted_candidates' = SortCandidates(candidate_scores)
          /\ similarity_matrix' = LastSimilarityMatrix(task_skills)
    /\ pc' = "walk"
    /\ UNCHANGED <<inputs, workflow, extractor, output_file, call, employees, sorted_tasks, task_idx, assignments,
                   unassigned_tasks, current_team_members, team, runs, prev_team>>

\* Lines 160-161: the scoring loop reaches an employee with skills, for whom
\* the embedding function is called.
EmbeddingRaisesGuard ==
    /\ ScoreCandidatesGuard
    /\ SkilledEmployees # << >>

\* Lines 160-161: the embedding function raises.  No handler encloses the
\* call, so the exception leaves team_builder_node: nothing is returned and
\* nothing is written.
EmbeddingRaises ==
    /\ EmbeddingRaisesGuard
    /\ pc' = "raised"
    /\ UNCHANGED <<inputs, workflow, extractor, output_file, call, employees, sorted_tasks, task_idx,
                   assignments, unassigned_tasks, current_team_members,
                   sorted_candidates, similarity_matrix, team, runs, prev_team>>

\* Lines 189-198: the three filters of the walk.
Survives(candidate) ==
    /\ ~BelowThreshold(candidate.match_score)
    /\ is_employee_available(employees[candidate.employee_id].schedule,
                             CurrentTask.start_days_from_kickoff,
                             CurrentTask.duration_days)
    /\ \/ candidate.employee_id \in current_team_members
       \/ CanAddToTeam(current_team_members, num_employees)

\* Lines 185-198: the first candidate of the ranked list that survives, as a
\* list of one, or the empty list.
RECURSIVE WalkFrom(_)
WalkFrom(candidates) ==
    IF candidates = << >> THEN << >>
    ELSE IF Survives(Head(candidates)) THEN <<Head(candidates)>>
    ELSE WalkFrom(Tail(candidates))

\* Mutant: the walk breaks at the first candidate that fails a filter.
Walk_break(candidates) ==
    IF candidates # << >> /\ Survives(Head(candidates)) THEN <<Head(candidates)>>
    ELSE << >>

Walk(candidates) == WalkFrom(candidates)

\* Line 198: the walk reached a candidate that passes the filters.
CommitGuard ==
    /\ pc = "walk"
    /\ Walk(sorted_candidates) # << >>

\* Lines 198-238: the chosen candidate gets the interval, joins the team and
\* gets the assignment record.
Commit ==
    /\ CommitGuard
    /\ LET candidate == Walk(sorted_candidates)[1]
           emp_filename == candidate.employee_id
           task_skills == TaskSkills(CurrentTask)
           task_start == CurrentTask.start_days_from_kickoff
           task_end == task_start + CurrentTask.duration_days
           matched == MatchedSkills(task_skills, employees[emp_filename].skills,
                                    similarity_matrix)
           missing == MissingSkills(SeqToSet(task_skills), matched)
       IN  /\ employees' = [employees EXCEPT ![emp_filename].schedule =
                                Booked(@, task_start, task_end)]
           /\ current_team_members' = current_team_members \cup {emp_filename}
           /\ \E skills_match \in ListsOfSet(matched), missing_skills \in ListsOfSet(missing) :
                  assignments' = [assignments EXCEPT ![emp_filename] = Append(@,
                      [task_name |-> CurrentTask.name,
                       start_day |-> task_start,
                       end_day |-> task_end,
                       skills_match |-> skills_match,
                       missing_skills |-> missing_skills,
                       semantic_match_score |-> candidate.match_score])]
    /\ task_idx' = task_idx + 1
    /\ pc' = "loop"
    /\ UNCHANGED <<inputs, workflow, extractor, output_file, call, sorted_tasks, unassigned_tasks, sorted_candidates,
                   similarity_matrix, team, runs, prev_team>>

\* Line 240: the walk ended and assigned is still False.
NoCandidateGuard ==
    /\ pc = "walk"
    /\ Walk(sorted_candidates) = << >>

\* Mutant: a task nobody can take is dropped, not recorded.
NoCandidate_dropped ==
    /\ NoCandidateGuard
    /\ task_idx' = task_idx + 1
    /\ pc' = "loop"
    /\ UNCHANGED <<inputs, workflow, extractor, output_file, call, employees, sorted_tasks, assignments, unassigned_tasks,
                   current_team_members, sorted_candidates, similarity_matrix,
                   team, runs, prev_team>>

\* Lines 240-241: no candidate survived the walk.
NoCandidate ==
    /\ NoCandidateGuard
    /\ unassigned_tasks' = Append(unassigned_tasks, CurrentTask.name)
    /\ task_idx' = task_idx + 1
    /\ pc' = "loop"
    /\ UNCHANGED <<inputs, workflow, extractor, output_file, call, employees, sorted_tasks, assignments,
                   current_team_members, sorted_candidates, similarity_matrix,
                   team, runs, prev_team>>

\* Mutant: every employee is listed, with or without assignments.
TeamMembers_all ==
    [i \in 1..Len(EmployeeOrder) |->
        [employee_filename |-> EmployeeOrder[i],
         assignments |-> assignments[EmployeeOrder[i]]]]

\* Lines 243-259: the members with assignments, in dict order.
TeamMembers ==
    LET with == SelectSeq(EmployeeOrder, LAMBDA f : assignments[f] # << >>)
    IN  [i \in 1..Len(with) |->
            [employee_filename |-> with[i], assignments |-> assignments[with[i]]]]

\* Line 242: the for loop over sorted_tasks is exhausted.
FormatOutputGuard ==
    /\ pc = "loop"
    /\ task_idx > Len(sorted_tasks)

\* Lines 243-271: the team composition is formatted, saved and returned.
FormatOutput ==
    /\ FormatOutputGuard
    /\ team' = << [team |-> TeamMembers,
                   unassigned_tasks |-> unassigned_tasks,
                   rationale |-> [requested |-> num_employees,
                                  formed |-> Len(TeamMembers),
                                  unassigned |-> Len(unassigned_tasks)]] >>
    /\ output_file' = team'
    /\ pc' = "done"
    /\ UNCHANGED <<inputs, workflow, extractor, call, employees, sorted_tasks, task_idx, assignments,
                   unassigned_tasks, current_team_members, sorted_candidates,
                   similarity_matrix, runs, prev_team>>

\* A second invocation of team_builder_node on the same input files, in a new
\* process: nothing but the files is shared with the first.
Restart ==
    /\ pc = "done"
    /\ runs = 1
    /\ runs' = 2
    /\ prev_team' = team
    /\ pc' = "init"
    /\ employees' = << >>
    /\ sorted_tasks' = << >>
    /\ task_idx' = 0
    /\ assignments' = << >>
    /\ unassigned_tasks' = << >>
    /\ current_team_members' = {}
    /\ sorted_candidates' = << >>
    /\ similarity_matrix' = << >>
    /\ team' = << >>
    /\ UNCHANGED <<inputs, workflow, extractor, output_file, call>>

Next ==
    \/ InitEmbeddingFails
    \/ LoadProjectFails
    \/ LoadSkillsFails
    \/ LoadInputs
    \/ Prepare
    \/ SkipTask
    \/ ScoreCandidates
    \/ EmbeddingRaises
    \/ Commit
    \/ NoCandidate
    \/ FormatOutput

Spec == Init /\ [][Next]_vars

\* Some step of a run can be taken: every action is its guard and an
\* assignment to the primed variables, which can always be made.
CanStep ==
    \/ InitEmbeddingFailsGuard
    \/ LoadProjectFailsGuard
    \/ LoadSkillsFailsGuard
    \/ LoadInputsGuard
    \/ PrepareGuard
    \/ SkipTaskGuard
    \/ ScoreCandidatesGuard
    \/ EmbeddingRaisesGuard
    \/ CommitGuard
    \/ NoCandidateGuard
    \/ FormatOutputGuard

NextTwice == Next \/ Restart

SpecTwice == Init /\ [][NextTwice]_vars

\* ------------------------------------------- runs with a single candidate

\* Task names by position in the input list.
SoloTaskNames == <<"A", "B", "C", "D">>

\* Skills lists of a task: python, which the candidate may have; css, which
\* is far from python (similarity 0) and is the taxonomy parent of sass
\* (similarity 0.4); and none.
SoloTaskSkillLists == {<<"python">>, <<"css">>, << >>}

\* Windows (start, duration) of several days: [0, 5) and [2, 7) overlap,
\* [5, 7) follows [0, 5) without a gap, [7, 8) follows [2, 7) and [5, 7).
SoloWindows == {<<0, 5>>, <<2, 5>>, <<5, 2>>, <<7, 1>>}

SoloTaskLists ==
    UNION {{[i \in 1..n |->
                [name |-> SoloTaskNames[i],
                 skills |-> sk[i],
                 start_days_from_kickoff |-> w[i][1],
                 duration_days |-> w[i][2]]]
            : sk \in [1..n -> SoloTaskSkillLists], w \in [1..n -> SoloWindows]}
           : n \in 0..MaxTasks}

\* One candidate, c1, with the skill python, the skill sass, or no skill.
SoloEmployeeLists ==
    {<<[filename |-> "c1", summary |-> sm]>>
       : sm \in {<< <<"python">> >>, << <<"sass">> >>, << << >> >>}}

\* The state at the call of team_builder_node when all_skills_summary.json
\* lists a single candidate.
InitSolo ==
    /\ artifacts \in ArtifactStates
    /\ project_tasks \in IF ReadsProject(artifacts) THEN SoloTaskLists ELSE {<< >>}
    /\ employee_skills_data \in IF ReadsSkills(artifacts) THEN SoloEmployeeLists ELSE {<< >>}
    /\ num_employees \in 0..MaxCap
    /\ pc = "init"
    /\ employees = << >>
    /\ sorted_tasks = << >>
    /\ task_idx = 0
    /\ assignments = << >>
    /\ unassigned_tasks = << >>
    /\ current_team_members = {}
    /\ sorted_candidates = << >>
    /\ similarity_matrix = << >>
    /\ team = << >>
    /\ runs = 1
    /\ prev_team = << >>
    /\ output_file = << >>
    /\ call = << >>
    /\ workflow = << >>
    /\ extractor = << >>

SpecSolo == InitSolo /\ [][Next]_vars

\* ------------------------------------- is_employee_available, on its own

\* The integers a call is tried with: negative days, and durations of zero
\* and below, are among them.
CallDays == -1..2
CallDurations == -1..2

\* The schedules a call is tried with: up to two (busy_start, busy_end)
\* tuples of any integers, in order or not.
CallSchedules ==
    {<< >>} \cup {<<a>> : a \in CallDays \X CallDays}
            \cup {<<a, b>> : a \in CallDays \X CallDays, b \in CallDays \X CallDays}

\* A caller is about to call is_employee_available(schedule, task_start,
\* task_duration); no run of the team builder is under way.
InitCall ==
    /\ call \in [schedule : CallSchedules, task_start : CallDays,
                  task_duration : CallDurations, returned : {<< >>}]
    /\ pc = "call"
    /\ artifacts = [embedding |-> "ok", project |-> "ok", skills |-> "ok"]
    /\ project_tasks = << >>
    /\ employee_skills_data = << >>
    /\ num_employees = 0
    /\ employees = << >>
    /\ sorted_tasks = << >>
    /\ task_idx = 0
    /\ assignments = << >>
    /\ unassigned_tasks = << >>
    /\ current_team_members = {}
    /\ sorted_candidates = << >>
    /\ similarity_matrix = << >>
    /\ team = << >>
    /\ runs = 1
    /\ prev_team = << >>
    /\ output_file = << >>
    /\ workflow = << >>
    /\ extractor = << >>

\* Lines 69-75: the call returns; the schedule argument is only read.
CallIsEmployeeAvailable ==
    /\ pc = "call"
    /\ call' = [call EXCEPT !.returned =
                    <<is_employee_available(call.schedule, call.task_start,
                                            call.task_duration)>>]
    /\ pc' = "returned"
    /\ UNCHANGED <<inputs, workflow, extractor, output_file, employees, sorted_tasks, task_idx,
                   assignments, unassigned_tasks, current_team_members,
                   sorted_candidates, similarity_matrix, team, runs, prev_team>>

SpecCall == InitCall /\ [][CallIsEmployeeAvailable]_vars

\* ------------------------------------------------------------------ claims

\* The task of the input with the given name (names are unique in a run).
TaskNamed(n) == CHOOSE t \in SeqToSet(project_tasks) : t.name = n

\* The lower-cased required skills of a task, as a set.
RequiredSkills(task) ==
    {Lower(task.skills[i]) : i \in {k \in 1..Len(task.skills) : task.skills[k] # ""}}

\* All assignment records committed so far.
AllAssignments ==
    UNION {{assignments[f][k] : k \in 1..Len(assignments[f])} : f \in DOMAIN assignments}

\* Two intervals [s1, e1) and [s2, e2) overlap.
Overlap(a, b) == a[1] < b[2] /\ a[2] > b[1]

\* C1: at every point of a run, no two distinct committed intervals of one
\* candidate's schedule overlap (tasks have start >= 0 and duration >= 1).
C1_NoDoubleBooking ==
    \A f \in DOMAIN employees :
        \A i, j \in 1..Len(employees[f].schedule) :
            i # j => ~Overlap(employees[f].schedule[i], employees[f].schedule[j])

\* C1 witness: at the end of a run a candidate holds two intervals, the
\* second starting on the day the first ends.
C1_Witness ==
    /\ pc = "done"
    /\ \E f \in DOMAIN employees :
          /\ Len(employees[f].schedule) >= 2
          /\ employees[f].schedule[1][2] = employees[f].schedule[2][1]

\* C2: at every point of a run and in the output, the number of distinct
\* candidates holding an assignment is at most num_employees.
C2_TeamSizeCap ==
    /\ Cardinality(current_team_members) <= num_employees
    /\ Cardinality({f \in DOMAIN assignments : assignments[f] # << >>}) <= num_employees
    /\ team # << >> => Len(team[1].team) <= num_employees

\* C2 witness: the team is full and the best-ranked candidate of a task, who
\* clears the threshold and is free, is outside it.
C2_Witness ==
    /\ pc = "walk"
    /\ num_employees >= 1
    /\ Cardinality(current_team_members) = num_employees
    /\ LET first == sorted_candidates[1]
       IN  /\ first.employee_id \notin current_team_members
           /\ first.match_score.num * 10 >= MIN_SEMANTIC_SCORE_THRESHOLD * first.match_score.den
           /\ \A i \in 1..Len(employees[first.employee_id].schedule) :
                 ~Overlap(employees[first.employee_id].schedule[i],
                          <<CurrentTask.start_days_from_kickoff,
                            CurrentTask.start_days_from_kickoff + CurrentTask.duration_days>>)

\* C3: in every assignment record, skills_match and missing_skills are
\* disjoint and together are exactly the task's lower-cased required skills.
C3_MatchedMissingPartition ==
    \A a \in AllAssignments :
        /\ SeqToSet(a.skills_match) \cap SeqToSet(a.missing_skills) = {}
        /\ SeqToSet(a.skills_match) \cup SeqToSet(a.missing_skills) =
               RequiredSkills(TaskNamed(a.task_name))

\* C3 witness: a record with a skill matched and a skill missing, held by a
\* candidate who has skills the task does not ask for.
C3_Witness ==
    \E f \in DOMAIN assignments : \E k \in 1..Len(assignments[f]) :
        /\ assignments[f][k].skills_match # << >>
        /\ assignments[f][k].missing_skills # << >>
        /\ employees[f].skills \ RequiredSkills(TaskNamed(assignments[f][k].task_name)) # {}

\* The candidate whose assignment list grows in a step.
Committed(f) == assignments'[f] # assignments[f]

\* The score the scoring loop gives employee f for the current task.
ScoreOf(f) == MatchScore(employees[f].skills, TaskSkills(CurrentTask))

\* Employee f passes the three filters for the current task: the score
\* reaches the minimum threshold, no busy interval overlaps the task's window,
\* and f is in the team or the team is below the cap.
Eligible(f) ==
    /\ ScoreOf(f).num * 10 >= MIN_SEMANTIC_SCORE_THRESHOLD * ScoreOf(f).den
    /\ \A i \in 1..Len(employees[f].schedule) :
          ~Overlap(employees[f].schedule[i],
                   <<CurrentTask.start_days_from_kickoff,
                     CurrentTask.start_days_from_kickoff + CurrentTask.duration_days>>)
    /\ (f \in current_team_members \/ Cardinality(current_team_members) < num_employees)

\* Employee g ranks ahead of f: a higher score, or the same score and a
\* greater identifier.
RanksAhead(g, f) ==
    \/ ScoreOf(g).num * ScoreOf(f).den > ScoreOf(f).num * ScoreOf(g).den
    \/ /\ ScoreOf(g).num * ScoreOf(f).den = ScoreOf(f).num * ScoreOf(g).den
       /\ StrRank(g) > StrRank(f)

\* C4: a task whose skills list is empty or holds only empty strings is
\* appended to unassigned_tasks by a step that scores nobody and changes no
\* schedule, no assignment list and not the team set; and no assignment
\* record ever names such a task.
C4_EmptyTaskUnassigned ==
    [][ /\ (pc = "loop" /\ task_idx <= Len(sorted_tasks)
            /\ RequiredSkills(CurrentTask) = {})
           => /\ unassigned_tasks' = Append(unassigned_tasks, CurrentTask.name)
              /\ task_idx' = task_idx + 1
              /\ pc' = "loop"
              /\ UNCHANGED <<employees, assignments, current_team_members,
                             sorted_candidates, similarity_matrix>>
        /\ \A f \in DOMAIN assignments' : \A k \in 1..Len(assignments'[f]) :
              RequiredSkills(TaskNamed(assignments'[f][k].task_name)) # {}
      ]_vars

\* C4 witness: a run ended with a task without skills in unassigned_tasks
\* although a candidate was free and the team was not full.
C4_Witness ==
    /\ pc = "done"
    /\ \E i \in 1..Len(unassigned_tasks) :
          RequiredSkills(TaskNamed(unassigned_tasks[i])) = {}
    /\ AllAssignments # {}
    /\ Cardinality(current_team_members) < num_employees

\* C5: a task is committed only to a candidate who is eligible at that
\* moment and whom no other eligible candidate ranks ahead of; the ranking
\* holds a score for every candidate, in the team or not.
C5_BestEligibleCommitted ==
    [][ (pc = "walk" /\ assignments' # assignments)
           => /\ {sorted_candidates[i].employee_id : i \in 1..Len(sorted_candidates)}
                     = {employee_skills_data[i].filename : i \in 1..Len(employee_skills_data)}
              /\ \A i \in 1..Len(sorted_candidates) :
                    sorted_candidates[i].match_score = ScoreOf(sorted_candidates[i].employee_id)
              /\ \A f \in DOMAIN assignments :
                    Committed(f) =>
                       /\ Eligible(f)
                       /\ \A g \in DOMAIN assignments :
                             (g # f /\ Eligible(g)) => ~RanksAhead(g, f)
      ]_vars

\* C5 witness: the task just committed went to a candidate other than the
\* best-ranked one, who was outside the team.
C5_Witness ==
    /\ pc = "loop"
    /\ task_idx > 1
    /\ \E f \in DOMAIN assignments :
          /\ assignments[f] # << >>
          /\ assignments[f][Len(assignments[f])].task_name = sorted_tasks[task_idx - 1].name
          /\ f # sorted_candidates[1].employee_id
          /\ sorted_candidates[1].employee_id \notin current_team_members

\* C6: a task with skills is appended to unassigned_tasks exactly when, at
\* the moment it is processed, no candidate passes the three filters; the
\* loop then goes on with the next task.
C6_UnassignedIffNoCandidate ==
    [][ /\ (pc = "walk" /\ ~\E f \in DOMAIN assignments : Eligible(f))
           => /\ unassigned_tasks' = Append(unassigned_tasks, CurrentTask.name)
              /\ assignments' = assignments
              /\ task_idx' = task_idx + 1
              /\ pc' = "loop"
        /\ (pc = "walk" /\ \E f \in DOMAIN assignments : Eligible(f))
           => /\ unassigned_tasks' = unassigned_tasks
              /\ \E f \in DOMAIN assignments : Committed(f)
        /\ (unassigned_tasks' # unassigned_tasks /\ pc # "walk" /\ pc # "done")
           => RequiredSkills(CurrentTask) = {}
      ]_vars

\* C6 witness: a run ended with a task in unassigned_tasks for which a
\* candidate reached the score threshold: it was the schedule or the cap that
\* left nobody to take it, after an earlier task had been assigned.
C6_Witness ==
    /\ pc = "done"
    /\ AllAssignments # {}
    /\ \E k \in 1..Len(unassigned_tasks) : \E f \in DOMAIN employees :
          LET score == MatchScore(employees[f].skills,
                                  TaskSkills(TaskNamed(unassigned_tasks[k])))
          IN  /\ RequiredSkills(TaskNamed(unassigned_tasks[k])) # {}
              /\ score.num * 10 >= MIN_SEMANTIC_SCORE_THRESHOLD * score.den

\* The number of assignment records and unassigned entries naming task n.
TimesRecorded(n, lists, unassigned) ==
    Cardinality({<<f, k>> \in (DOMAIN lists) \X (1..MaxTasks + 1) :
                    k <= Len(lists[f]) /\ lists[f][k].task_name = n})
    + Cardinality({k \in 1..Len(unassigned) : unassigned[k] = n})

\* The assignment lists of the returned team, by employee.
ReturnedLists ==
    [i \in 1..Len(team[1].team) |-> team[1].team[i].assignments]

\* How far a run has come: it grows with every step and is at most
\* 2 * Len(project_tasks) + 3.
Progress ==
    CASE pc = "init" -> -1
      [] pc = "start" -> 0
      [] pc = "loop" -> 2 * task_idx
      [] pc = "walk" -> 2 * task_idx + 1
      [] pc \in {"done", "failed", "raised"} -> 2 * Len(project_tasks) + 3

\* C7: every run ends (until it has ended a step can be taken, and every
\* step takes it further towards the end), and at its end each input task is
\* recorded exactly once: in one candidate's assignment list or in
\* unassigned_tasks, in the run's state and in the returned team composition.
C7_EveryTaskOnce ==
    /\ [](pc \in {"done", "failed", "raised"} \/ CanStep)
    /\ [][Progress' > Progress /\ Progress' <= 2 * Len(project_tasks) + 3]_vars
    /\ [](pc = "done" =>
            \A i \in 1..Len(project_tasks) :
                /\ TimesRecorded(project_tasks[i].name, assignments, unassigned_tasks) = 1
                /\ TimesRecorded(project_tasks[i].name, ReturnedLists,
                                 team[1].unassigned_tasks) = 1)

\* C7 witness: a run of two tasks ended with one assigned and one unassigned.
C7_Witness ==
    /\ pc = "done"
    /\ Len(project_tasks) >= 2
    /\ AllAssignments # {}
    /\ unassigned_tasks # << >>

\* C8: a second run on the same inputs returns the team composition the
\* first run returned, list orders included.
C8_SameOutputTwice ==
    (runs = 2 /\ pc = "done") => team = prev_team

\* C9: tasks are processed in ascending order of start day, and tasks with
\* the same start day in ascending order of name, whatever the input order.
C9_TiesByTaskName ==
    \A i, j \in 1..Len(sorted_tasks) :
        i < j =>
            \/ sorted_tasks[i].start_days_from_kickoff < sorted_tasks[j].start_days_from_kickoff
            \/ /\ sorted_tasks[i].start_days_from_kickoff = sorted_tasks[j].start_days_from_kickoff
               /\ StrRank(sorted_tasks[i].name) < StrRank(sorted_tasks[j].name)

\* C10: the candidates of a task are walked in descending order of score,
\* and candidates of equal score in descending order of identifier: a strict
\* total order on the (score, identifier) pairs.
C10_RankedByScoreThenId ==
    \A i, j \in 1..Len(sorted_candidates) :
        i < j =>
            LET a == sorted_candidates[i]
                b == sorted_candidates[j]
            IN  \/ a.match_score.num * b.match_score.den > b.match_score.num * a.match_score.den
                \/ /\ a.match_score.num * b.match_score.den = b.match_score.num * a.match_score.den
                   /\ StrRank(a.employee_id) > StrRank(b.employee_id)

\* C10 witness: the walk of a task starts over two candidates of equal,
\* passing score.
C10_Witness ==
    /\ pc = "walk"
    /\ Len(sorted_candidates) >= 2
    /\ sorted_candidates[1].match_score = sorted_candidates[2].match_score
    /\ sorted_candidates[1].match_score.num > 0

\* C11: the minimum score a candidate needs for a task is 0.5, boundary
\* included: no assignment record carries a score below 0.5.
C11_NoCommitBelowHalf ==
    \A a \in AllAssignments :
        a.semantic_match_score.num * 10 >= 5 * a.semantic_match_score.den

\* C12: is_employee_available returns false exactly when some interval
\* (busy_start, busy_end) of the schedule has new_start < busy_end and
\* new_start + new_duration > busy_start, and true otherwise, so true for
\* the empty schedule; for all integers.
C12_AvailableIffNoOverlap ==
    pc = "returned" =>
        /\ call.returned[1] =
               ~\E i \in 1..Len(call.schedule) :
                    /\ call.task_start < call.schedule[i][2]
                    /\ call.task_start + call.task_duration > call.schedule[i][1]
        /\ call.schedule = << >> => call.returned[1]

\* C12 witness: a call returned true for a schedule of two intervals, the
\* new interval ending on the day one of them starts.
C12_Witness ==
    /\ pc = "returned"
    /\ call.returned = <<TRUE>>
    /\ Len(call.schedule) = 2
    /\ call.task_duration >= 1
    /\ \E i \in 1..2 : call.task_start + call.task_duration = call.schedule[i][1]
                        /\ call.schedule[i][1] < call.schedule[i][2]

\* C13: committing a task to candidate c adds exactly the interval
\* (start, start + duration) to c's schedule, adds c to the team set and
\* appends exactly one record, with start_day = start and end_day = start +
\* duration, to c's assignment list; every other candidate's schedule and
\* assignment list, and the unassigned list, stay as they were.
C13_CommitFrame ==
    [][ (pc = "walk" /\ (assignments' # assignments \/ employees' # employees
                          \/ current_team_members' # current_team_members))
           => \E c \in DOMAIN assignments :
                LET start == CurrentTask.start_days_from_kickoff
                    end == start + CurrentTask.duration_days
                    n == Len(assignments[c])
                IN  /\ employees'[c].schedule = employees[c].schedule \o <<<<start, end>>>>
                    /\ employees'[c].skills = employees[c].skills
                    /\ current_team_members' = current_team_members \cup {c}
                    /\ Len(assignments'[c]) = n + 1
                    /\ SubSeq(assignments'[c], 1, n) = assignments[c]
                    /\ assignments'[c][n + 1].task_name = CurrentTask.name
                    /\ assignments'[c][n + 1].start_day = start
                    /\ assignments'[c][n + 1].end_day = end
                    /\ \A g \in DOMAIN assignments \ {c} :
                          /\ employees'[g] = employees[g]
                          /\ assignments'[g] = assignments[g]
                    /\ unassigned_tasks' = unassigned_tasks
      ]_vars

\* C13 witness: a task was just committed to a candidate who held a record
\* already, while another candidate with skills holds none.
C13_Witness ==
    /\ pc = "loop"
    /\ \E f \in DOMAIN assignments :
          /\ Len(assignments[f]) = 2
          /\ Len(employees[f].schedule) = 2
          /\ assignments[f][2].task_name = sorted_tasks[task_idx - 1].name
          /\ \E g \in DOMAIN assignments \ {f} :
                employees[g].skills # {} /\ assignments[g] = << >>

\* The number of assignment records in the lists a.
RecordCount(a) ==
    Cardinality({<<f, k>> \in (DOMAIN a) \X (1..MaxTasks + 1) : k <= Len(a[f])})

\* C14: scoring a task changes no schedule, no assignment list and not the
\* team set; these change only in a commit, which comes after the scores of
\* all candidates for the task are collected, adds one interval and one
\* record, and ends the processing of the task (so at most one commit per
\* task); the availability checks made on the way change no schedule, be the
\* candidate checked committed or not.
C14_CommitOnlyMutation ==
    [][ /\ (pc = "loop" /\ pc' # "loop")
           => /\ UNCHANGED <<employees, assignments, current_team_members,
                             unassigned_tasks>>
              /\ pc' = "walk" =>
                    {sorted_candidates'[i].employee_id : i \in 1..Len(sorted_candidates')}
                        = DOMAIN employees
        /\ (pc \in {"loop", "walk"}
             /\ (employees' # employees \/ assignments' # assignments
                 \/ current_team_members' # current_team_members))
           => /\ pc = "walk"
              /\ UNCHANGED sorted_candidates
              /\ RecordCount(assignments') = RecordCount(assignments) + 1
              /\ \E c \in DOMAIN employees :
                    /\ Len(employees'[c].schedule) = Len(employees[c].schedule) + 1
                    /\ \A g \in DOMAIN employees \ {c} : employees'[g] = employees[g]
              /\ task_idx' = task_idx + 1
              /\ pc' = "loop"
        /\ (pc = "walk" /\ assignments' = assignments)
           => UNCHANGED <<employees, current_team_members>>
      ]_vars

\* C14 witness: the walk of a task is about to check the availability of a
\* candidate who reaches the threshold and whose schedule holds an interval
\* that overlaps the task's window.
C14_Witness ==
    /\ pc = "walk"
    /\ \E i \in 1..Len(sorted_candidates) :
          LET f == sorted_candidates[i].employee_id
          IN  /\ ~BelowThreshold(sorted_candidates[i].match_score)
              /\ employees[f].schedule # << >>
              /\ Overlap(employees[f].schedule[1],
                         <<CurrentTask.start_days_from_kickoff,
                           CurrentTask.start_days_from_kickoff + CurrentTask.duration_days>>)

\* Task n holds an assignment record.
AssignedTask(n) == \E a \in AllAssignments : a.task_name = n

\* The windows of two tasks overlap.
WindowsOverlap(t, u) ==
    Overlap(<<t.start_days_from_kickoff, t.start_days_from_kickoff + t.duration_days>>,
            <<u.start_days_from_kickoff, u.start_days_from_kickoff + u.duration_days>>)

\* The single candidate can take the i-th task processed when its turn
\* comes: the team may have a member, the score reaches the threshold, and
\* no task assigned before overlaps it.
SoloCanTake(i) ==
    /\ num_employees >= 1
    /\ RequiredSkills(sorted_tasks[i]) # {}
    /\ \A f \in DOMAIN employees :
          ~BelowThreshold(MatchScore(employees[f].skills, TaskSkills(sorted_tasks[i])))
    /\ \A k \in 1..(i - 1) :
          AssignedTask(sorted_tasks[k].name) => ~WindowsOverlap(sorted_tasks[k], sorted_tasks[i])

\* The run of the example: tasks A (python, start 0, 5 days) and B (python,
\* start 2, 5 days), candidate c1 with python, a team of at most one.
SoloExample ==
    /\ project_tasks =
          <<[name |-> "A", skills |-> <<"python">>,
             start_days_from_kickoff |-> 0, duration_days |-> 5],
            [name |-> "B", skills |-> <<"python">>,
             start_days_from_kickoff |-> 2, duration_days |-> 5]>>
    /\ employee_skills_data = <<[filename |-> "c1", summary |-> << <<"python">> >>]>>
    /\ num_employees = 1

BestSimilarity(skill, f) == SetMax({Clip(Sim(skill, es)) : es \in employees[f].skills})

\* C16: in every assignment record, a required skill that the assigned
\* candidate does not have is in skills_match exactly when its best
\* similarity to the skills of that candidate is at least 0.5, and in
\* missing_skills otherwise.
C16_MatchedBySimilarityToAssignee ==
    \A f \in DOMAIN assignments : \A k \in 1..Len(assignments[f]) :
        \A skill \in RequiredSkills(TaskNamed(assignments[f][k].task_name)) \ employees[f].skills :
            /\ skill \in SeqToSet(assignments[f][k].skills_match)
                   <=> BestSimilarity(skill, f) >= 5
            /\ skill \in SeqToSet(assignments[f][k].missing_skills)
                   <=> BestSimilarity(skill, f) < 5

\* The weight, in tenths, a required skill earns with employee f when no
\* taxonomy relative is at hand: 1.0 for a skill f has, the best similarity
\* when it is at least 0.5, and 0 for a skill that stays missing.
SkillWeight(skill, f) ==
    IF skill \in employees[f].skills THEN 10
    ELSE IF employees[f].skills # {} /\ BestSimilarity(skill, f) >= 5
         THEN BestSimilarity(skill, f)
         ELSE 0

\* C17: the score of a candidate for a task is the sum of the weights of
\* the required skills divided by their number, where a skill the candidate
\* has weighs 1.0 and a skill that stays missing (best similarity below 0.5)
\* weighs 0.
C17_ScoreIsSumOfWeights ==
    pc = "walk" =>
        \A i \in 1..Len(sorted_candidates) :
            LET f == sorted_candidates[i].employee_id
                task_skills == TaskSkills(CurrentTask)
                weights == [k \in 1..Len(task_skills) |-> SkillWeight(task_skills[k], f)]
            IN  sorted_candidates[i].match_score.num * 10 * Len(task_skills)
                    = SumSeq(weights) * sorted_candidates[i].match_score.den

\* The required skills that employee f does not have but that have a
\* taxonomy parent or child among f's skills.
TaxonomyRelated(required, f) ==
    {skill \in required \ employees[f].skills :
        (get_skill_relatives(SkillGraphEdges, skill).parents
            \cup get_skill_relatives(SkillGraphEdges, skill).children)
            \cap employees[f].skills # {}}

\* C18: a required skill the candidate does not have, with a taxonomy parent
\* or child among the candidate's skills, is in skills_match and weighs
\* exactly 0.5 in the score, whatever its embedding similarity: where every
\* required skill is had or so related, the score is (1.0 * had + 0.5 *
\* related) / required.
C18_TaxonomyRelativeHalfWeight ==
    \A f \in DOMAIN assignments : \A k \in 1..Len(assignments[f]) :
        LET rec == assignments[f][k]
            required == RequiredSkills(TaskNamed(rec.task_name))
            had == required \cap employees[f].skills
            related == TaxonomyRelated(required, f)
        IN  /\ related \subseteq SeqToSet(rec.skills_match)
            /\ (had \cup related = required) =>
                  rec.semantic_match_score.num * 10 * Cardinality(required)
                      = (10 * Cardinality(had) + 5 * Cardinality(related))
                            * rec.semantic_match_score.den

\* One of the two input files is absent, is not JSON or fails validation,
\* and the run gets as far as trying to load it.
InputFails ==
    /\ artifacts.embedding = "ok"
    /\ artifacts.project # "ok" \/ artifacts.skills # "ok"

\* C19: when the project analysis or the employee skills file is missing,
\* unparsable or invalid, the run ends before any task is scored or
\* committed, no exception leaves it, and it returns a payload with an empty
\* team, an empty task list and a rationale that names the failure.
C19_InputFailureReturnsPayload ==
    InputFails =>
        /\ pc \in {"init", "failed"}
        /\ pc = "init" => (LoadProjectFailsGuard \/ LoadSkillsFailsGuard)
        /\ employees = << >> /\ assignments = << >> /\ sorted_candidates = << >>
        /\ current_team_members = {}
        /\ pc = "failed" =>
              /\ Len(team) = 1
              /\ team[1].team = << >>
              /\ team[1].unassigned_tasks = << >>
              /\ team[1].rationale =
                     IF artifacts.project # "ok"
                     THEN [failed |-> "load project analysis", error |-> artifacts.project]
                     ELSE [failed |-> "load employee skills", error |-> artifacts.skills]

\* C19 witness: a run returned the payload because the employee skills file
\* failed validation, after the project analysis with its tasks was loaded.
C19_Witness ==
    /\ pc = "failed"
    /\ artifacts.skills = "invalid"
    /\ project_tasks # << >>
    /\ team # << >>

\* C20: when the embedding call fails in the scoring of a task after earlier
\* tasks were committed, the run ends, no team composition holding the
\* earlier assignments is returned or written, and a failure artifact
\* carrying the error is produced: an error payload is returned or written.
C20_EmbeddingFailureArtifact ==
    (pc = "raised" /\ AllAssignments # {}) =>
        /\ team # << >> => team[1].team = << >>
        /\ output_file # << >> => output_file[1].team = << >>
        /\ team # << >> \/ output_file # << >>

\* C21: every run that returns, a failed one included, has produced
\* team_composition.json, and the file holds what that run returned: for a
\* run that failed at the provider or at the loads, an empty team and a
\* rationale.
C21_ArtifactOfEveryRun ==
    pc \in {"done", "failed"} =>
        /\ output_file # << >>
        /\ output_file = team
        /\ pc = "failed" => output_file[1].team = << >>

\* ------------------------------------------- tasks with dependencies

\* Tasks as project_analysis.json carries them, with their depends_on list
\* (ProjectTask): a task depends on no task, or on one other task of the
\* project, which may start earlier, on the same day, or later.
DepsTaskSkillLists == {<<"python">>, << >>}
DepsWindows == {<<0, 5>>, <<2, 5>>}

DepsOf(i, n) == {<< >>} \cup {<<SoloTaskNames[j]>> : j \in (1..n) \ {i}}

DepsTaskLists ==
    UNION {{[i \in 1..n |->
                [name |-> SoloTaskNames[i],
                 skills |-> sk[i],
                 depends_on |-> dp[i],
                 start_days_from_kickoff |-> w[i][1],
                 duration_days |-> w[i][2]]]
            : sk \in [1..n -> DepsTaskSkillLists], w \in [1..n -> DepsWindows],
              dp \in {f \in [1..n -> UNION {DepsOf(i, n) : i \in 1..n}] :
                         \A i \in 1..n : f[i] \in DepsOf(i, n)}}
           : n \in 0..MaxTasks}

\* One or two candidates, each with the skill python.
DepsEmployeeLists ==
    {<<[filename |-> "c1", summary |-> << <<"python">> >>]>>,
     <<[filename |-> "c1", summary |-> << <<"python">> >>],
       [filename |-> "c2", summary |-> << <<"python">> >>]>>}

InitDeps ==
    /\ artifacts \in ArtifactStates
    /\ project_tasks \in IF ReadsProject(artifacts) THEN DepsTaskLists ELSE {<< >>}
    /\ employee_skills_data \in IF ReadsSkills(artifacts) THEN DepsEmployeeLists ELSE {<< >>}
    /\ num_employees \in 0..MaxCap
    /\ pc = "init"
    /\ employees = << >>
    /\ sorted_tasks = << >>
    /\ task_idx = 0
    /\ assignments = << >>
    /\ unassigned_tasks = << >>
    /\ current_team_members = {}
    /\ sorted_candidates = << >>
    /\ similarity_matrix = << >>
    /\ team = << >>
    /\ runs = 1
    /\ prev_team = << >>
    /\ output_file = << >>
    /\ call = << >>
    /\ workflow = << >>
    /\ extractor = << >>

\* The project with every depends_on list replaced by another.
SameButDependencies(tasks) ==
    {l \in DepsTaskLists :
        /\ Len(l) = Len(tasks)
        /\ \A i \in 1..Len(l) : [l[i] EXCEPT !.depends_on = << >>]
                                  = [tasks[i] EXCEPT !.depends_on = << >>]}

\* team_builder_node is invoked again after project_analysis.json was
\* rewritten with other depends_on lists and nothing else changed.
RerunWithOtherDependencies ==
    /\ pc = "done"
    /\ runs = 1
    /\ project_tasks' \in SameButDependencies(project_tasks)
    /\ runs' = 2
    /\ prev_team' = team
    /\ pc' = "init"
    /\ employees' = << >>
    /\ sorted_tasks' = << >>
    /\ task_idx' = 0
    /\ assignments' = << >>
    /\ unassigned_tasks' = << >>
    /\ current_team_members' = {}
    /\ sorted_candidates' = << >>
    /\ similarity_matrix' = << >>
    /\ team' = << >>
    /\ UNCHANGED <<artifacts, employee_skills_data, num_employees, workflow,
                   extractor, output_file, call>>

NextDeps == Next \/ RerunWithOtherDependencies

SpecDeps == InitDeps /\ [][NextDeps]_vars

\* What a returned composition says of who does what: the members in order,
\* each with its records (the skill lists as sets), and the unassigned list.
WhoDoesWhat(composition) ==
    [members |-> [i \in 1..Len(composition.team) |->
                    [employee_filename |-> composition.team[i].employee_filename,
                     assignments |->
                        [k \in 1..Len(composition.team[i].assignments) |->
                            LET a == composition.team[i].assignments[k]
                            IN  [task_name |-> a.task_name,
                                 start_day |-> a.start_day,
                                 end_day |-> a.end_day,
                                 skills_match |-> SeqToSet(a.skills_match),
                                 missing_skills |-> SeqToSet(a.missing_skills),
                                 semantic_match_score |-> a.semantic_match_score]]]],
     unassigned_tasks |-> composition.unassigned_tasks]

\* C22: the result of the assignment does not depend on the depends_on
\* lists: a run on a project that differs from an earlier one in the
\* depends_on lists only returns the same members, records and unassigned
\* tasks.
C22_DependenciesIgnored ==
    (runs = 2 /\ pc = "done") => WhoDoesWhat(team[1]) = WhoDoesWhat(prev_team[1])

\* A second run has ended in which a task is assigned although a task it
\* depends on is unassigned, and one in which the task it depends on starts
\* later.
DependsOnUnassigned ==
    \E t \in SeqToSet(project_tasks) :
        /\ AssignedTask(t.name)
        /\ t.depends_on # << >>
        /\ t.depends_on[1] \in SeqToSet(unassigned_tasks)

DependsOnLater ==
    \E t \in SeqToSet(project_tasks) :
        /\ AssignedTask(t.name)
        /\ t.depends_on # << >>
        /\ TaskNamed(t.depends_on[1]).start_days_from_kickoff
              > t.start_days_from_kickoff

C22_Witness ==
    /\ runs = 2
    /\ pc = "done"
    /\ DependsOnUnassigned
    /\ DependsOnLater

\* --------------------------------------- get_skill_relatives, on its own

\* The skills a caller asks about: labels of the taxonomy in lower case, in
\* capitals and in mixed case, and a label the taxonomy does not have.
RelativesSkills == {"python", "Python", "css", "CSS", "SASS", "sql", "cobol"}

\* A caller is about to call get_skill_relatives(graph, skill) on a graph
\* that has some of the taxonomy's edges.
InitRelatives ==
    /\ call \in [graph : SUBSET SkillGraphEdges, skill : RelativesSkills,
                  returned : {<< >>}]
    /\ pc = "call"
    /\ artifacts = [embedding |-> "ok", project |-> "ok", skills |-> "ok"]
    /\ project_tasks = << >>
    /\ employee_skills_data = << >>
    /\ num_employees = 0
    /\ employees = << >>
    /\ sorted_tasks = << >>
    /\ task_idx = 0
    /\ assignments = << >>
    /\ unassigned_tasks = << >>
    /\ current_team_members = {}
    /\ sorted_candidates = << >>
    /\ similarity_matrix = << >>
    /\ team = << >>
    /\ runs = 1
    /\ prev_team = << >>
    /\ output_file = << >>
    /\ workflow = << >>
    /\ extractor = << >>

\* Lines 136-147: the call returns; `in`, predecessors and successors only
\* read the graph.
CallGetSkillRelatives ==
    /\ pc = "call"
    /\ call' = [call EXCEPT !.returned =
                    <<get_skill_relatives(call.graph, call.skill)>>]
    /\ pc' = "returned"
    /\ UNCHANGED <<inputs, workflow, extractor, output_file, employees, sorted_tasks, task_idx,
                   assignments, unassigned_tasks, current_team_members,
                   sorted_candidates, similarity_matrix, team, runs, prev_team>>

SpecRelatives == InitRelatives /\ [][CallGetSkillRelatives]_vars

\* The sources of the edges into a node, and the targets of the edges out
\* of it.
Sources(graph, node) == {e[1] : e \in {x \in graph : x[2] = node}}
Targets(graph, node) == {e[2] : e \in {x \in graph : x[1] = node}}

\* C23: get_skill_relatives looks the skill up without regard to case: it
\* returns (None, None) exactly when the lower-cased skill is no node of the
\* graph, and otherwise the sources of the edges into it as parents and the
\* targets of the edges out of it as children; x is a child of p iff p is a
\* parent of x; the graph is left as it was.
C23_RelativesOfSkill ==
    [][pc = "call" =>
        LET graph == call.graph
            skill == Lower(call.skill)
            returned == call'.returned[1]
        IN  /\ call'.graph = graph
            /\ returned.found = (skill \in GraphNodes(graph))
            /\ returned.found =>
                  /\ returned.parents = Sources(graph, skill)
                  /\ returned.children = Targets(graph, skill)
            /\ \A p \in GraphNodes(graph), x \in GraphNodes(graph) :
                  (x \in get_skill_relatives(call'.graph, p).children)
                      = (p \in get_skill_relatives(call'.graph, x).parents)]_vars

\* A call with a skill written with a capital has returned its parents and
\* its children in the whole taxonomy.
C23_Witness ==
    /\ pc = "returned"
    /\ call.graph = SkillGraphEdges
    /\ call.skill = "Python"
    /\ call.returned[1].found
    /\ call.returned[1].parents = {"programming", "backend development"}
    /\ call.returned[1].children = {"django"}

\* The place of a task in the order of processing.
ProcessedAt(n) == CHOOSE i \in 1..Len(sorted_tasks) : sorted_tasks[i].name = n

\* C24: in the output of a successful run the team lists exactly the
\* candidates with at least one assignment, which are the members of the
\* committed team, each once and with its assignments in the order the tasks
\* were processed; the rationale reports the requested size, the number of
\* team entries and the length of unassigned_tasks.
C24_OutputOfSuccessfulRun ==
    pc = "done" =>
        LET out == team[1]
            listed == {out.team[i].employee_filename : i \in 1..Len(out.team)}
        IN  /\ listed = {f \in EmployeeIds : assignments[f] # << >>}
            /\ listed = current_team_members
            /\ Cardinality(listed) = Len(out.team)
            /\ \A i \in 1..Len(out.team) :
                  LET a == out.team[i].assignments
                  IN  /\ a = assignments[out.team[i].employee_filename]
                      /\ \A k \in 1..Len(a), l \in 1..Len(a) :
                            k < l => ProcessedAt(a[k].task_name)
                                        < ProcessedAt(a[l].task_name)
            /\ out.unassigned_tasks = unassigned_tasks
            /\ out.rationale.requested = num_employees
            /\ out.rationale.formed = Len(out.team)
            /\ out.rationale.unassigned = Len(out.unassigned_tasks)

\* A run has ended with a member that has two assignments while another
\* candidate has none.
C24_Witness ==
    /\ pc = "done"
    /\ \E i \in 1..Len(team[1].team) : Len(team[1].team[i].assignments) = 2
    /\ \E f \in EmployeeIds : assignments[f] = << >>

\* ----------------------------- the similarity computation, on its own

\* The embedding vectors the embedding function may return for a skill, in
\* two dimensions: the zero vector and vectors along an axis.
EmbeddingVectors == {<<0, 0>>, <<2, 0>>, <<0, 3>>, <<-1, 0>>}

\* One or two skills' embeddings.
EmbeddingLists ==
    {<<v>> : v \in EmbeddingVectors}
        \cup {<<v, w>> : v \in EmbeddingVectors, w \in EmbeddingVectors}

\* np.linalg.norm of a row.
Norm(v) == CHOOSE n \in 0..3 : n * n = v[1] * v[1] + v[2] * v[2]

\* What the memory of a row of the array np.divide allocates may hold, in
\* tenths, before anything is written to it.
UninitializedRows == {<<0, 0>>, <<10, 0>>, <<0, -10>>}

\* What np.divide(row, norm, where=norm != 0) leaves in a row, in tenths: a
\* row with a norm is divided by it; a row without one is not written to,
\* and no out array is given, so it holds what the fresh array held.
NormalizedRow(v) ==
    IF Norm(v) # 0
    THEN {[k \in 1..2 |-> (10 * v[k]) \div Norm(v)]}
    ELSE UninitializedRows

\* np.divide(embeddings, norms, where=norms != 0): the arrays it may return.
Normalized(embeddings) ==
    {rows \in [1..Len(embeddings) ->
                  UNION {NormalizedRow(embeddings[i]) : i \in 1..Len(embeddings)}] :
        \A i \in 1..Len(embeddings) : rows[i] \in NormalizedRow(embeddings[i])}

\* np.clip(np.dot(task, emp.T), -1.0, 1.0), in tenths.
CosineSimilarityMatrix(task, emp) ==
    [i \in 1..Len(task) |->
        [j \in 1..Len(emp) |->
            Clip((task[i][1] * emp[j][1] + task[i][2] * emp[j][2]) \div 10)]]

\* The scoring loop is about to compute the similarity matrix of a task's
\* skills and an employee's skills from their embeddings.
InitSimilarity ==
    /\ call \in [task_skill_embeddings : EmbeddingLists,
                  emp_skill_embeddings : EmbeddingLists,
                  returned : {<< >>}]
    /\ pc = "call"
    /\ artifacts = [embedding |-> "ok", project |-> "ok", skills |-> "ok"]
    /\ project_tasks = << >>
    /\ employee_skills_data = << >>
    /\ num_employees = 0
    /\ employees = << >>
    /\ sorted_tasks = << >>
    /\ task_idx = 0
    /\ assignments = << >>
    /\ unassigned_tasks = << >>
    /\ current_team_members = {}
    /\ sorted_candidates = << >>
    /\ similarity_matrix = << >>
    /\ team = << >>
    /\ runs = 1
    /\ prev_team = << >>
    /\ output_file = << >>
    /\ workflow = << >>
    /\ extractor = << >>

\* Lines 160-171: the embeddings are normalised and multiplied, and the
\* products clipped.
ComputeSimilarity ==
    /\ pc = "call"
    /\ \E task \in Normalized(call.task_skill_embeddings),
          emp \in Normalized(call.emp_skill_embeddings) :
          call' = [call EXCEPT !.returned = <<CosineSimilarityMatrix(task, emp)>>]
    /\ pc' = "returned"
    /\ UNCHANGED <<inputs, workflow, extractor, output_file, employees, sorted_tasks, task_idx,
                   assignments, unassigned_tasks, current_team_members,
                   sorted_candidates, similarity_matrix, team, runs, prev_team>>

SpecSimilarity == InitSimilarity /\ [][ComputeSimilarity]_vars

\* C25: where the embedding of a task skill or of a candidate skill is the
\* zero vector, every similarity with that skill is exactly 0.
C25_ZeroVectorSimilarityZero ==
    pc = "returned" =>
        \A i \in 1..Len(call.task_skill_embeddings),
           j \in 1..Len(call.emp_skill_embeddings) :
            (\/ call.task_skill_embeddings[i] = <<0, 0>>
             \/ call.emp_skill_embeddings[j] = <<0, 0>>)
                => call.returned[1][i][j] = 0

\* C26: the intervals are half-open.  A candidate whose schedule is the one
\* interval [s, e) is available for a task that starts on day e and for a
\* task that ends on day s; a candidate holding an interval [s, e) of at
\* least a day is not available for a task of at least a day that starts on
\* day e - 1.
C26_HalfOpenIntervals ==
    pc = "returned" =>
        LET task_end == call.task_start + call.task_duration
        IN  /\ Len(call.schedule) = 1 =>
                  /\ call.task_start = call.schedule[1][2] => call.returned[1]
                  /\ task_end = call.schedule[1][1] => call.returned[1]
            /\ \A i \in 1..Len(call.schedule) :
                  (/\ call.schedule[i][1] < call.schedule[i][2]
                   /\ call.task_start = call.schedule[i][2] - 1
                   /\ call.task_duration >= 1)
                      => ~call.returned[1]

\* A candidate holding [0, 1) was found available for a task of one day
\* that starts on day 1.
C26_Witness ==
    /\ pc = "returned"
    /\ call.schedule = << <<0, 1>> >>
    /\ call.task_start = 1
    /\ call.task_duration = 1
    /\ call.returned = <<TRUE>>

\* ------------------------------------------- the integrated workflow

\* Mutant: the entry point is the project analyzer, which hands over to
\* the skill extractor.
WorkflowEdges_analyzer_first ==
    {<<"START", "project_analyzer">>, <<"project_analyzer", "skill_extractor">>,
     <<"skill_extractor", "team_builder">>, <<"team_builder", "END">>}

\* set_entry_point and the three add_edge calls of the graph.
WorkflowEdges ==
    {<<"START", "skill_extractor">>, <<"skill_extractor", "project_analyzer">>,
     <<"project_analyzer", "team_builder">>, <<"team_builder", "END">>}

\* The node the compiled graph runs after node n.
NextNode(n) == (CHOOSE e \in WorkflowEdges : e[1] = n)[2]

\* The FinalState main invokes the graph with.
FinalStates ==
    [project_description : {"", "a web shop"},
     project_skills : {<< >>, <<"Py">>, <<"css", "sql">>},
     num_employees : 0..MaxCap]

\* main is about to call app.invoke(initial_state).
InitWorkflow ==
    /\ workflow \in [state : FinalStates, at : {"START"}, running : {FALSE},
                      raised : {FALSE}, log : {<< >>}]
    /\ pc = "workflow"
    /\ artifacts = [embedding |-> "ok", project |-> "ok", skills |-> "ok"]
    /\ project_tasks = << >>
    /\ employee_skills_data = << >>
    /\ num_employees = 0
    /\ employees = << >>
    /\ sorted_tasks = << >>
    /\ task_idx = 0
    /\ assignments = << >>
    /\ unassigned_tasks = << >>
    /\ current_team_members = {}
    /\ sorted_candidates = << >>
    /\ similarity_matrix = << >>
    /\ team = << >>
    /\ runs = 1
    /\ prev_team = << >>
    /\ output_file = << >>
    /\ call = << >>
    /\ extractor = << >>

WorkflowFrame ==
    UNCHANGED <<inputs, pc, extractor, output_file, call, employees, sorted_tasks,
                task_idx, assignments, unassigned_tasks, current_team_members,
                sorted_candidates, similarity_matrix, team, runs, prev_team>>

\* The graph calls the wrapper of the node that follows the one that
\* returned (or the entry point).
StageStarts ==
    /\ pc = "workflow"
    /\ ~workflow.running /\ ~workflow.raised
    /\ workflow.at # "END"
    /\ NextNode(workflow.at) # "END"
    /\ workflow' = [workflow EXCEPT !.at = NextNode(workflow.at),
                                    !.running = TRUE,
                                    !.log = Append(@, <<"start", NextNode(workflow.at)>>)]
    /\ WorkflowFrame

\* The wrapper returns None; the state is passed on as it is.
StageReturns ==
    /\ pc = "workflow"
    /\ workflow.running
    /\ workflow' = [workflow EXCEPT !.running = FALSE,
                                    !.log = Append(@, <<"end", workflow.at>>)]
    /\ WorkflowFrame

\* The stage raises: no wrapper catches, and the exception leaves
\* app.invoke.
StageRaises ==
    /\ pc = "workflow"
    /\ workflow.running
    /\ workflow' = [workflow EXCEPT !.running = FALSE, !.raised = TRUE]
    /\ WorkflowFrame

\* The node that returned has its edge to END: app.invoke returns.
WorkflowEnds ==
    /\ pc = "workflow"
    /\ ~workflow.running /\ ~workflow.raised
    /\ workflow.at # "END"
    /\ NextNode(workflow.at) = "END"
    /\ workflow' = [workflow EXCEPT !.at = "END"]
    /\ WorkflowFrame

NextWorkflow == StageStarts \/ StageReturns \/ StageRaises \/ WorkflowEnds

SpecWorkflow == InitWorkflow /\ [][NextWorkflow]_vars

\* The starts and returns of an invocation in which no stage fails.
StagesInOrder ==
    <<<<"start", "skill_extractor">>, <<"end", "skill_extractor">>,
      <<"start", "project_analyzer">>, <<"end", "project_analyzer">>,
      <<"start", "team_builder">>, <<"end", "team_builder">>>>

\* C27: in one invocation the stages start in the order skill extractor,
\* project analyzer, team builder, none twice and none before the one before
\* it has returned; the invocation ends only after each stage has run once.
C27_StagesInOrder ==
    pc = "workflow" =>
        /\ Len(workflow.log) <= Len(StagesInOrder)
        /\ workflow.log = SubSeq(StagesInOrder, 1, Len(workflow.log))
        /\ workflow.at = "END" => workflow.log = StagesInOrder

\* An invocation has ended after its three stages.
C27_Witness ==
    /\ pc = "workflow"
    /\ workflow.at = "END"
    /\ Len(workflow.log) = 6

\* ------------------------------------- the candidates in another order

\* The lists that hold the entries of a list in some order.
Reordered(list) ==
    {[i \in 1..Len(list) |-> list[perm[i]]] :
        perm \in {f \in [1..Len(list) -> 1..Len(list)] :
                    \A i, j \in 1..Len(list) : i # j => f[i] # f[j]}}

\* team_builder_node is invoked again after all_skills_summary.json was
\* rewritten with the same candidates in another order.
RerunReordered ==
    /\ pc = "done"
    /\ runs = 1
    /\ employee_skills_data' \in Reordered(employee_skills_data) \ {employee_skills_data}
    /\ runs' = 2
    /\ prev_team' = team
    /\ pc' = "init"
    /\ employees' = << >>
    /\ sorted_tasks' = << >>
    /\ task_idx' = 0
    /\ assignments' = << >>
    /\ unassigned_tasks' = << >>
    /\ current_team_members' = {}
    /\ sorted_candidates' = << >>
    /\ similarity_matrix' = << >>
    /\ team' = << >>
    /\ UNCHANGED <<artifacts, project_tasks, num_employees, workflow,
                   extractor, output_file, call>>

NextReordered == Next \/ RerunReordered

SpecReordered == Init /\ [][NextReordered]_vars

\* The candidates a returned composition gives a task to.
CommittedTo(composition, n) ==
    {composition.team[i].employee_filename :
        i \in {k \in 1..Len(composition.team) :
                  \E a \in SeqToSet(composition.team[k].assignments) :
                      a.task_name = n}}

\* C28: the candidate each task is committed to, and the unassigned tasks,
\* are the same when the candidates (with unique identifiers) are listed in
\* another order in the skills file.
C28_CandidateOrderIrrelevant ==
    (runs = 2 /\ pc = "done") =>
        /\ \A t \in SeqToSet(project_tasks) :
              CommittedTo(team[1], t.name) = CommittedTo(prev_team[1], t.name)
        /\ team[1].unassigned_tasks = prev_team[1].unassigned_tasks

\* A second run has ended with the candidates listed the other way round,
\* both of them skilled, and a task committed.
C28_Witness ==
    /\ runs = 2
    /\ pc = "done"
    /\ Len(employee_skills_data) = 2
    /\ employee_skills_data[1].filename = "e2"
    /\ \A f \in EmployeeIds : employees[f].skills # {}
    /\ AllAssignments # {}

\* The list s is the beginning of the list t.
IsPrefix(s, t) == Len(s) <= Len(t) /\ s = SubSeq(t, 1, Len(s))

\* C29: no backtracking.  From the first task to the output, every step
\* leaves each schedule, each assignment list and the unassigned list as the
\* beginning of what it is afterwards, and the team set within what it is
\* afterwards: a record, once made, is never removed, moved or altered.
C29_RecordsOnlyGrow ==
    [][(pc \in {"loop", "walk"}) =>
        /\ DOMAIN employees' = DOMAIN employees
        /\ \A f \in DOMAIN employees :
              /\ IsPrefix(employees[f].schedule, employees'[f].schedule)
              /\ IsPrefix(assignments[f], assignments'[f])
        /\ IsPrefix(unassigned_tasks, unassigned_tasks')
        /\ current_team_members \subseteq current_team_members'
        /\ pc' = "done" => /\ team'[1].unassigned_tasks = unassigned_tasks
                           /\ \A i \in 1..Len(team'[1].team) :
                                 team'[1].team[i].assignments
                                     = assignments[team'[1].team[i].employee_filename]
      ]_vars

\* The first task was committed, and the second task has been processed
\* after it and left unassigned.
C29_Witness ==
    /\ pc = "loop"
    /\ task_idx = 3
    /\ Len(unassigned_tasks) = 1
    /\ AssignedTask(sorted_tasks[1].name)

\* ------------------------------------------------ the skill extractor

\* The CV files of the folder ./cvs: two of them differ in the extension
\* only.
CvFiles == {"a.pdf", "a.txt", "b.pdf"}

\* filename.rsplit('.', 1)[0]
Stem(filename) ==
    CASE filename = "a.pdf" -> "a"
      [] filename = "a.txt" -> "a"
      [] filename = "b.pdf" -> "b"

\* The per-CV result file skill_results/<stem>_skills.json of a CV.
OutputFile(filename) == Stem(filename)

\* The summaries the extraction graph may return for a CV.
GraphSummaries == {"summary 1", "summary 2"}

\* Mutant: the result file of a CV is never found.
ResultExists_never(results, filename) == FALSE

\* os.path.exists(output_file)
ResultExists(results, filename) == results[OutputFile(filename)] # << >>

\* The extractor is about to run for the first time: the folder holds some
\* CV files, each with text that can be read or not, and skill_results is
\* empty.
InitExtractor ==
    /\ extractor \in
          UNION {[folder : {F}, text : [F -> BOOLEAN], at : {"start"}, run : {1},
                  files : {<< >>}, idx : {0},
                  results : {[o \in {OutputFile(f) : f \in CvFiles} |-> << >>]},
                  all_results : {<< >>}, master : {<< >>},
                  invoked : {[f \in CvFiles |-> 0]},
                  processed : {{}}]
                 : F \in SUBSET CvFiles}
    /\ pc = "extractor"
    /\ artifacts = [embedding |-> "ok", project |-> "ok", skills |-> "ok"]
    /\ project_tasks = << >>
    /\ employee_skills_data = << >>
    /\ num_employees = 0
    /\ employees = << >>
    /\ sorted_tasks = << >>
    /\ task_idx = 0
    /\ assignments = << >>
    /\ unassigned_tasks = << >>
    /\ current_team_members = {}
    /\ sorted_candidates = << >>
    /\ similarity_matrix = << >>
    /\ team = << >>
    /\ runs = 1
    /\ prev_team = << >>
    /\ output_file = << >>
    /\ call = << >>
    /\ workflow = << >>

ExtractorFrame ==
    UNCHANGED <<inputs, pc, workflow, output_file, call, employees, sorted_tasks,
                task_idx, assignments, unassigned_tasks, current_team_members,
                sorted_candidates, similarity_matrix, team, runs, prev_team>>

\* The file the for loop is at.
CurrentFile == extractor.files[extractor.idx]

InLoop ==
    /\ pc = "extractor"
    /\ extractor.at = "loop"
    /\ extractor.idx <= Len(extractor.files)

\* Lines 206-216: the folder is missing or holds no CV file; main returns.
ExtractorNoFiles ==
    /\ pc = "extractor"
    /\ extractor.at = "start"
    /\ extractor.folder = {}
    /\ extractor' = [extractor EXCEPT !.at = "done"]
    /\ ExtractorFrame

\* Lines 212-220: os.listdir gives the files in some order.
ExtractorListFiles ==
    /\ pc = "extractor"
    /\ extractor.at = "start"
    /\ extractor.folder # {}
    /\ \E files \in ListsOfSet(extractor.folder) :
          extractor' = [extractor EXCEPT !.files = files, !.idx = 1,
                                        !.all_results = << >>,
                                        !.invoked = [f \in CvFiles |-> 0],
                                        !.at = "loop"]
    /\ ExtractorFrame

\* Lines 225-236: the result file exists; its summary is appended to the
\* master results and the graph is not invoked.
ExtractorCached ==
    /\ InLoop
    /\ ResultExists(extractor.results, CurrentFile)
    /\ LET cached_data == extractor.results[OutputFile(CurrentFile)][1]
       IN  extractor' = [extractor EXCEPT
                !.all_results = Append(@, [filename |-> CurrentFile,
                                           summary |-> cached_data.summary]),
                !.idx = @ + 1]
    /\ ExtractorFrame

\* Lines 238-243: no text could be read from the CV; it is skipped.
ExtractorNoText ==
    /\ InLoop
    /\ ~ResultExists(extractor.results, CurrentFile)
    /\ ~extractor.text[CurrentFile]
    /\ extractor' = [extractor EXCEPT !.idx = @ + 1]
    /\ ExtractorFrame

\* Lines 245-272: the graph is invoked and returns a summary; the result
\* file is written and the summary appended to the master results.
ExtractorInvokeOk ==
    /\ InLoop
    /\ ~ResultExists(extractor.results, CurrentFile)
    /\ extractor.text[CurrentFile]
    /\ \E summary \in GraphSummaries :
          LET entry == [filename |-> CurrentFile, summary |-> summary]
          IN  extractor' = [extractor EXCEPT
                !.invoked[CurrentFile] = @ + 1,
                !.results[OutputFile(CurrentFile)] = <<entry>>,
                !.all_results = Append(@, entry),
                !.processed = IF extractor.run = 1 THEN @ \cup {entry} ELSE @,
                !.idx = @ + 1]
    /\ ExtractorFrame

\* Lines 245-248, 274-275: the graph is invoked and raises; the error is
\* printed and the loop goes on.
ExtractorInvokeFails ==
    /\ InLoop
    /\ ~ResultExists(extractor.results, CurrentFile)
    /\ extractor.text[CurrentFile]
    /\ extractor' = [extractor EXCEPT !.invoked[CurrentFile] = @ + 1,
                                      !.idx = @ + 1]
    /\ ExtractorFrame

\* Lines 277-284: the loop is over; the master file is written when there
\* is a result.
ExtractorSaveMaster ==
    /\ pc = "extractor"
    /\ extractor.at = "loop"
    /\ extractor.idx > Len(extractor.files)
    /\ extractor' = [extractor EXCEPT
            !.master = IF extractor.all_results # << >>
                       THEN <<extractor.all_results>> ELSE @,
            !.at = "done"]
    /\ ExtractorFrame

\* The extractor is run again over the same folder.
ExtractorRerun ==
    /\ pc = "extractor"
    /\ extractor.at = "done"
    /\ extractor.run = 1
    /\ extractor' = [extractor EXCEPT !.run = 2, !.at = "start",
                                      !.invoked = [f \in CvFiles |-> 0]]
    /\ ExtractorFrame

NextExtractor ==
    \/ ExtractorNoFiles
    \/ ExtractorListFiles
    \/ ExtractorCached
    \/ ExtractorNoText
    \/ ExtractorInvokeOk
    \/ ExtractorInvokeFails
    \/ ExtractorSaveMaster
    \/ ExtractorRerun

SpecExtractor == InitExtractor /\ [][NextExtractor]_vars

\* The entries of the master file for a CV.
Listed(filename) ==
    IF extractor.master = << >> THEN {}
    ELSE {i \in 1..Len(extractor.master[1]) :
            extractor.master[1][i].filename = filename}

\* C30: a CV whose result file exists is not sent through the graph.  In a
\* second run over the same folder the graph is invoked zero times for the
\* CVs the first run processed successfully, and when the run is over each
\* of them is listed once in all_skills_summary.json, with the summary the
\* first run saved.
C30_CachedNotInvokedAgain ==
    (pc = "extractor" /\ extractor.run = 2) =>
        \A entry \in extractor.processed :
            /\ extractor.invoked[entry.filename] = 0
            /\ extractor.at = "done" =>
                  /\ Cardinality(Listed(entry.filename)) = 1
                  /\ \A i \in Listed(entry.filename) :
                        extractor.master[1][i] = entry

\* A second run has ended over a folder of three CVs: the first run
\* processed one of them successfully while the graph failed on another,
\* which the second run sent through the graph again.
C30_Witness ==
    /\ pc = "extractor"
    /\ extractor.run = 2
    /\ extractor.at = "done"
    /\ extractor.folder = CvFiles
    /\ Cardinality(extractor.processed) = 1
    /\ \E f \in extractor.folder : extractor.invoked[f] = 1

====
